---- MODULE Spec2Model ----
(***************************************************************************)
(* A model of meta/files/toolchain-pyz-extract.py, the self-extracting SDK *)
(* installer: the compatibility gate, the choice and validation of the     *)
(* destination, the streamed extraction of the embedded tar archive, the   *)
(* relocation of the generated environment scripts and the three hooks.    *)
(*                                                                         *)
(* Text is modelled as sequences of tokens: a path or a line is a tuple of *)
(* strings, each string standing for that literal piece of text, so that   *)
(* "s in name", str.replace and sorted() are computed, not assumed.        *)
(***************************************************************************)
EXTENDS Integers, Sequences, FiniteSets, TLC

VARIABLES
    windows,        \* PLATFORM_IS_WINDOWS
    archive,        \* the members of the embedded tar, in stream order
    fs,             \* the destination tree: entry name -> node
    outside,        \* what lies behind the symbolic links that leave the tree
    script_file,    \* the NamedTemporaryFile of run_script exists
    args,           \* argparse's namespace
    pc,             \* position in main
    rc,             \* <<status>> once the process has exited, <<>> before
    extract_exclude,
    destination,
    dest_dir,       \* the destination directory exists
    tf_pos,         \* members of the stream consumed so far
    current_size,
    printed_checkpoints,
    scripts,        \* the list the relocation loop iterates
    script_idx,
    reloc,          \* the frame of the running relocate_file call
    real_env_setup_script,
    env_setup_script,
    hist,           \* what the run did so far (observable effects, in order)
    environ,        \* os.environ of the running process
    execs,          \* how often the process image was replaced (os.execv)
    kernel_release, \* what uname -r prints, when the host is a given one
    oldest_kernel   \* OLDEST_KERNEL, when the SDK is a given one

\* the host the installer runs on, and the constants it was built with
hostvars == <<environ, execs, kernel_release, oldest_kernel>>

vars == <<windows, archive, fs, outside, script_file, args, pc, rc,
          extract_exclude, destination, dest_dir, tf_pos, current_size,
          printed_checkpoints, scripts, script_idx, reloc,
          real_env_setup_script, env_setup_script, hist, hostvars>>

None == "None"
\* a local variable of main that no assignment has bound yet
Unbound == <<"<unbound>">>

----------------------------------------------------------------------------
(* Program constants *)

CHECKPOINT == 25600000
MaxDestLen == 2048

\* SDKPATH, the install path the SDK was built for
SDKPATH == <<"/opt", "/sdk">>

\* the marker of the main environment script
Marker == <<"OECORE_NATIVE_SYSROOT=">>

EnvPrefix == "environment-setup-"

\* environment-setup-@REAL_MULTIMACH_TARGET_SYS@
RealEnvName == <<EnvPrefix, "b">>

PostRelocateName == <<"post-relocate-setup.sh">>

RelocateScripts == {<<"relocate_sdk.py">>, <<"relocate_sdk.sh">>}

----------------------------------------------------------------------------
(* Text *)

\* "s in t" of Python on str
HasSubstr(s, t) ==
    \E i \in 0..(Len(t) - Len(s)) : SubSeq(t, i + 1, i + Len(s)) = s

StartsWith(t, s) == Len(t) >= Len(s) /\ SubSeq(t, 1, Len(s)) = s

\* the number of characters of a token
TokLen(tok) ==
    CASE tok = "<2043 chars>" -> 2043
      [] tok = " " -> 1
      [] tok = "x" -> 1
      [] tok = "/opt" -> 4
      [] tok = "/sdk" -> 4
      [] tok = "/new" -> 4
      [] tok = "/home" -> 5
      [] tok = "/cwd" -> 4
      [] tok = "/" -> 1
      [] tok = "sdk" -> 3
      [] OTHER -> 1

RECURSIVE StrLen(_)
StrLen(t) == IF t = <<>> THEN 0 ELSE TokLen(Head(t)) + StrLen(Tail(t))

\* re.search(r"\s", t)
HasWhitespace(t) == \E i \in 1..Len(t) : t[i] = " "

\* str.replace(old, new): every occurrence, leftmost first, not overlapping
RECURSIVE Replace(_, _, _)
Replace(t, old, new) ==
    IF t = <<>> THEN <<>>
    ELSE IF StartsWith(t, old)
         THEN new \o Replace(SubSeq(t, Len(old) + 1, Len(t)), old, new)
         ELSE <<Head(t)>> \o Replace(Tail(t), old, new)

----------------------------------------------------------------------------
(* Versions and architectures *)

\* A version "3.10" is the tuple <<3, 10>> of its numeric segments.
\* a <= b in the order of sort -V: segment by segment, numerically; of a
\* version and its extension the shorter one sorts first.
\* the first decimal digit of a segment below 100
FirstDigit(n) == IF n >= 10 THEN n \div 10 ELSE n

\* an order that compares the segments as text: "10" sorts before "9"
RECURSIVE VersionLeq_Lexical(_, _)
VersionLeq_Lexical(a, b) ==
    IF a = <<>> THEN TRUE
    ELSE IF b = <<>> THEN FALSE
    ELSE IF FirstDigit(Head(a)) < FirstDigit(Head(b)) THEN TRUE
    ELSE IF FirstDigit(Head(a)) > FirstDigit(Head(b)) THEN FALSE
    ELSE IF Head(a) < Head(b) THEN TRUE
    ELSE IF Head(a) > Head(b) THEN FALSE
    ELSE VersionLeq_Lexical(Tail(a), Tail(b))

RECURSIVE VersionLeq(_, _)
VersionLeq(a, b) ==
    IF a = <<>> THEN TRUE
    ELSE IF b = <<>> THEN FALSE
    ELSE IF Head(a) < Head(b) THEN TRUE
    ELSE IF Head(a) > Head(b) THEN FALSE
    ELSE VersionLeq(Tail(a), Tail(b))

\* the first line of what sort -V prints for the two lines a, b
SortVFirst(a, b) == IF VersionLeq(a, b) THEN a ELSE b

ver_lteq(a, b) == SortVFirst(a, b) = a

ver_lt(a, b) == IF a = b THEN FALSE ELSE ver_lteq(a, b)

translate_arch(arch) ==
    CASE arch \in {"i386", "i486", "i586", "i686"} -> "ix86"
      [] arch \in {"x86-64", "x86_64"} -> "x86_64"
      [] arch = "AMD64" -> "x86_64"
      [] OTHER -> arch

\* what uname -r may print, and OLDEST_KERNEL
KernelVersions == {<<3, 9>>, <<3, 10>>, <<3, 10, 0>>, <<5, 4>>}
OldestKernels == {<<3, 10>>, <<3, 2, 0>>}

\* platform.machine() and SDK_ARCH
Machines == {"x86_64", "AMD64", "i686", "aarch64"}
SdkArchs == {"x86_64", "i586", "aarch64"}

\* get_gcc_version() and SDK_GCC_VER
HostGccVersions == {"4.8", "4.9", "9.3", None}
SdkGccVersions == {"", "4.9", "9.3"}
SdkExtTypes == {"minimal", "full"}

gcc_incompatible(host_gcc_ver, sdk_gcc_ver) ==
    \/ (host_gcc_ver = "4.8" /\ sdk_gcc_ver = "4.9")
    \/ (host_gcc_ver = "4.8" /\ sdk_gcc_ver = "")
    \/ (host_gcc_ver = "4.9" /\ sdk_gcc_ver = "")

arch_incompatible(host_arch, sdk_arch) ==
    /\ host_arch # sdk_arch
    /\ (host_arch # "x86_64" \/ sdk_arch # "ix86")

----------------------------------------------------------------------------
(* Prompts *)

\* str.lower() and str.strip() on an answer typed at a prompt
LowerTok(c) == IF c = "Y" THEN "y" ELSE IF c = "N" THEN "n" ELSE c

Lower(t) == [i \in 1..Len(t) |-> LowerTok(t[i])]

RECURSIVE LStrip(_)
LStrip(t) == IF t # <<>> /\ Head(t) = " " THEN LStrip(Tail(t)) ELSE t

RECURSIVE RStrip(_)
RStrip(t) ==
    IF t # <<>> /\ t[Len(t)] = " " THEN RStrip(SubSeq(t, 1, Len(t) - 1)) ELSE t

Strip(t) == RStrip(LStrip(t))

EOF == <<"<EOFError>">>

\* what input() may return: EOFError, or the line typed
Answers == {EOF, <<>>, <<"y">>, <<"Y">>, <<" ", "y", " ">>, <<"n">>,
            <<"y", "e", "s">>, <<" ">>}

\* a prompt that takes an empty answer for a yes whatever its default
prompt_bool_default_yes(user_input, default) ==
    IF user_input = EOF THEN TRUE
    ELSE IF user_input = <<>> THEN TRUE
    ELSE Strip(Lower(user_input)) = <<"y">>

prompt_bool(user_input, default) ==
    IF user_input = EOF THEN default
    ELSE IF user_input = <<>> THEN default
    ELSE Strip(Lower(user_input)) = <<"y">>

----------------------------------------------------------------------------
(* Destination paths *)

Cwd == <<"/cwd">>

\* os.path.abspath: a relative path is joined to the working directory
abspath(p) == IF p # <<>> /\ Head(p) \in {"/", "/opt", "/home", "/cwd"}
              THEN p ELSE Cwd \o <<"/">> \o p

\* what -d or the prompt may name
DirInputs == {<<"sdk">>,                          \* relative
              <<"/home", "<2043 chars>">>,        \* 2048 characters
              <<"/home", "/", "<2043 chars>">>,   \* 2049 characters
              <<"/home", " ", "x">>}              \* whitespace

\* a length check that lets one character more through
dest_too_long_off_by_one(d) == StrLen(d) > MaxDestLen + 1

dest_too_long(d) == StrLen(d) > MaxDestLen

----------------------------------------------------------------------------
(* The destination tree *)

EnvA == <<EnvPrefix, "a">>
EnvATmp == <<EnvPrefix, "a", ".tmp">>
Tmp(name) == name \o <<".tmp">>

Names == {EnvA, RealEnvName, EnvATmp, Tmp(RealEnvName), Tmp(EnvATmp),
          PostRelocateName, Tmp(PostRelocateName),
          <<"relocate_sdk.py">>, <<"relocate_sdk.sh">>,
          <<"ext-sdk-prepare.py">>, <<"sstate-cache", "/x">>,
          <<"my-", "sstate-cache", ".txt">>, <<"sysroots">>}

NoNode == [kind |-> "none", content |-> <<>>, target |-> ""]
EmptyTree == [n \in Names |-> NoNode]
FileNode(c) == [kind |-> "file", content |-> c, target |-> ""]
DirNode == [kind |-> "dir", content |-> <<>>, target |-> ""]
LinkNode(t) == [kind |-> "link", content |-> <<>>, target |-> t]

\* File contents: lines of tokens.
MarkedContent == << <<"export ", "OECORE_NATIVE_SYSROOT=", "/opt", "/sdk", "/sysroots">>,
                    <<"PATH=", "/opt", "/sdk", "/bin">> >>
PlainContent == << <<"PATH=", "/opt", "/sdk", "/bin", ":", "/opt", "/sdk">> >>
OldContent == << <<"old">> >>

\* Where a symbolic link may lead: a file or a directory outside the tree,
\* nowhere ("gone"), or the target recorded in an archive member ("lnk").
LinkTargets == {"outfile", "outdir", "gone", "lnk"}

Outside0 == [t \in LinkTargets |->
                CASE t = "outfile" -> FileNode(OldContent)
                  [] t = "outdir" -> DirNode
                  [] OTHER -> NoNode]

\* the node a path resolves to when links are followed
Resolve(f, out, name) ==
    IF f[name].kind = "link" THEN out[f[name].target] ELSE f[name]

\* os.path.lexists, os.path.islink, os.path.isdir and os.path.exists
lexists(f, name) == f[name].kind # "none"
islink(f, name) == f[name].kind = "link"
isdir(f, out, name) == Resolve(f, out, name).kind = "dir"
exists(f, out, name) == Resolve(f, out, name).kind # "none"

\* Archive members (TarInfo): name, type, size, and the data or link target.
FileEntry(n, sz, c) ==
    [name |-> n, type |-> "file", size |-> sz, content |-> c, linkname |-> ""]
DirEntry(n) ==
    [name |-> n, type |-> "dir", size |-> 0, content |-> <<>>, linkname |-> ""]
SymEntry(n) ==
    [name |-> n, type |-> "symlink", size |-> 0, content |-> <<>>, linkname |-> "lnk"]

----------------------------------------------------------------------------
(* The extractor: extract_file and tarfile's TarFile.extract *)

\* a filter that matches whole names instead of substrings
excluded_whole_name(exclude, name) == name \in exclude

excluded(exclude, name) == \E x \in exclude : HasSubstr(x, name)

\* a test that follows links: a link to a directory stays in place
must_unlink_following(f, out, dest) == lexists(f, dest) /\ ~isdir(f, out, dest)

\* extract_file removes what is at dest when it is a link or no directory
must_unlink(f, out, dest) ==
    lexists(f, dest) /\ (islink(f, dest) \/ ~isdir(f, out, dest))

unlink_first(f, out, dest) ==
    IF must_unlink(f, out, dest) THEN [f EXCEPT ![dest] = NoNode] ELSE f

\* TarFile.extract(member, destination): the tree and what lies outside it
\* afterwards, and whether it raised.  A regular file is opened for
\* writing, which follows a link found at its path; a directory is made
\* unless something is there; a link replaces whatever non-directory is
\* there.
tar_extract(f, out, e) ==
    LET at == f[e.name] IN
    CASE e.type = "file" /\ at.kind \in {"none", "file"} ->
            [ok |-> TRUE, fs |-> [f EXCEPT ![e.name] = FileNode(e.content)],
             outside |-> out]
      [] e.type = "file" /\ at.kind = "link" /\ out[at.target].kind # "dir" ->
            [ok |-> TRUE, fs |-> f,
             outside |-> [out EXCEPT ![at.target] = FileNode(e.content)]]
      [] e.type = "dir" /\ at.kind = "none" ->
            [ok |-> TRUE, fs |-> [f EXCEPT ![e.name] = DirNode], outside |-> out]
      [] e.type = "dir" /\ at.kind # "none" ->
            [ok |-> TRUE, fs |-> f, outside |-> out]
      [] e.type = "symlink" /\ at.kind # "dir" ->
            [ok |-> TRUE, fs |-> [f EXCEPT ![e.name] = LinkNode(e.linkname)],
             outside |-> out]
      [] OTHER -> [ok |-> FALSE, fs |-> f, outside |-> out]

\* a progress report that prints one dot at most after a member
new_ticks_at_most_one(size, printed) ==
    IF (size \div CHECKPOINT) > printed THEN 1 ELSE 0

\* the dots extract_file prints after a member
new_ticks(size, printed) == (size \div CHECKPOINT) - printed

----------------------------------------------------------------------------
(* Sorting and globbing *)

TokRank(tok) ==
    CASE tok = ".tmp" -> 1
      [] tok = "a" -> 2
      [] tok = "b" -> 3
      [] OTHER -> 0

\* a < b as Python compares the two path strings
RECURSIVE NameLess(_, _)
NameLess(a, b) ==
    IF b = <<>> THEN FALSE
    ELSE IF a = <<>> THEN TRUE
    ELSE IF TokRank(Head(a)) < TokRank(Head(b)) THEN TRUE
    ELSE IF TokRank(Head(a)) > TokRank(Head(b)) THEN FALSE
    ELSE NameLess(Tail(a), Tail(b))

RECURSIVE sorted(_)
sorted(S) ==
    IF S = {} THEN <<>>
    ELSE LET m == CHOOSE x \in S : \A y \in S \ {x} : NameLess(x, y)
         IN <<m>> \o sorted(S \ {m})

\* glob "environment-setup-*" at the destination
glob_matches(f) == {n \in Names : lexists(f, n) /\ Head(n) = EnvPrefix}

environment_setup_scripts(f) == sorted(glob_matches(f))

Range(q) == {q[i] : i \in 1..Len(q)}

----------------------------------------------------------------------------
(* The process environment, and check_env *)

PRESERVED_ENVS == <<"HOME", "TERM", "ICECC_PATH", "http_proxy", "https_proxy",
                    "ftp_proxy", "no_proxy", "all_proxy", "GIT_PROXY_COMMAND">>

\* the variables an environment may hold
EnvNames == Range(PRESERVED_ENVS) \cup {"ENVCLEANED", "LC_ALL", "PATH", "LD_PRELOAD"}

\* os.environ.get(e) of a variable that is not set
Unset == <<"<unset>">>

NoEnviron == [e \in EnvNames |-> Unset]

\* not os.environ.get("ENVCLEANED"): unset, or set to the empty string
env_cleaned(env) == env["ENVCLEANED"] # Unset /\ env["ENVCLEANED"] # <<>>

\* the elements of an argument vector: an option, NAME=VALUE, or a word
Opt(o) == [kind |-> "opt", name |-> o, value |-> <<>>]
Assign(n, v) == [kind |-> "assign", name |-> n, value |-> v]
Word(w) == [kind |-> "word", name |-> w, value |-> <<>>]

\* the list check_env hands to os.execv as the argument vector
execv_args(env) ==
    <<Opt("-i"), Assign("ENVCLEANED", <<"1">>), Assign("LC_ALL", <<"en_US.UTF8">>)>>
    \o [i \in 1..Len(PRESERVED_ENVS) |->
           Assign(PRESERVED_ENVS[i],
                  IF env[PRESERVED_ENVS[i]] = Unset THEN <<>>
                  ELSE env[PRESERVED_ENVS[i]])]
    \o <<Word("sys.executable"), Word("sys.argv")>>

\* NAME=VALUE operands of env(1), applied from the left up to the command
RECURSIVE env_assign(_, _)
env_assign(operands, env) ==
    IF operands = <<>> \/ Head(operands).kind # "assign" THEN env
    ELSE env_assign(Tail(operands),
                    [env EXCEPT ![Head(operands).name] = Head(operands).value])

\* /usr/bin/env started with the vector argv in the environment env: the
\* environment of the command it runs.  argv[0] is the name of the program;
\* the options and operands are what follows it.
usr_bin_env(argv, env) ==
    LET operands == Tail(argv)
        ignore_environment == operands # <<>> /\ Head(operands) = Opt("-i")
    IN IF ignore_environment THEN env_assign(Tail(operands), NoEnviron)
       ELSE env_assign(operands, env)

\* tweakpath(p) on a PATH
tweakpath(path, p) ==
    IF HasSubstr(<<":", p, ":">>, path) THEN path ELSE path \o <<":", p>>

\* PATH after check_env
normalized_path(path) ==
    LET stripped == Replace(Replace(path, <<":", ".">>, <<>>), <<":", ":">>, <<>>)
    IN tweakpath(tweakpath(stripped, "/usr/sbin"), "/sbin")

\* the environment main runs in when the installer is run from a shell
ShellEnviron ==
    [NoEnviron EXCEPT !["ENVCLEANED"] = <<"1">>,
                      !["LC_ALL"] = <<"en_US.UTF8">>,
                      !["HOME"] = <<"/root">>,
                      !["PATH"] = <<"/bin", ":", "/usr/sbin", ":", "/sbin">>]

----------------------------------------------------------------------------
(* The state at the start of main *)

Hist0 == [phases |-> <<"START">>,
          message |-> "",         \* the error message printed, if any
          tree0 |-> EmptyTree,    \* the destination tree before the run
          dest_dir0 |-> FALSE,    \* whether the destination existed then
          scan |-> EmptyTree,     \* the tree when the scripts were globbed
          temp_scripts |-> 0,     \* temporary hook scripts created
          makedirs |-> FALSE,     \* os.makedirs(destination) was called
          hooks |-> <<>>,         \* external hooks run, in order
          listed |-> <<>>,        \* names printed by tf.list()
          unlinked |-> <<>>,      \* paths extract_file unlinked
          extracted |-> <<>>,     \* members handed to tf.extract
          ticks |-> 0,            \* progress dots printed
          relocated |-> <<>>,     \* files relocate_file moved into place
          removed |-> {},         \* paths removed after relocation
          prompt |-> "none",      \* the confirmation asked: none, install, overwrite
          answer |-> <<>>,        \* what was typed at it
          environ0 |-> NoEnviron] \* the environment the installer was started in

NoFrame == [active |-> FALSE, name |-> <<>>, opened |-> FALSE,
            orig |-> <<>>, line |-> 0,
            is_real_env_script |-> FALSE, caller |-> ""]

Args0 == [yes |-> FALSE, dir |-> <<>>, save_scripts |-> FALSE,
          list_files |-> FALSE]

Start(a, f) ==
    /\ windows \in BOOLEAN
    /\ archive = a
    /\ fs = f
    /\ outside = Outside0
    /\ script_file = FALSE
    /\ args = Args0
    /\ pc = "parse_args"
    /\ rc = <<>>
    /\ extract_exclude = {}
    /\ destination = <<>>
    /\ dest_dir \in (IF f = EmptyTree THEN BOOLEAN ELSE {TRUE})
    /\ tf_pos = 0
    /\ current_size = 0
    /\ printed_checkpoints = 0
    /\ scripts = <<>>
    /\ script_idx = 0
    /\ reloc = NoFrame
    /\ real_env_setup_script = <<>>
    /\ env_setup_script = Unbound
    /\ environ = ShellEnviron
    /\ execs = 0
    /\ kernel_release = <<>>
    /\ oldest_kernel = <<>>
    /\ hist = [Hist0 EXCEPT !.tree0 = f, !.dest_dir0 = dest_dir]

Phase(p) == [hist EXCEPT !.phases = Append(@, p)]

\* the run fails: the phase, and the message printed
Failed(msg) == [hist EXCEPT !.phases = Append(@, "FAILED"), !.message = msg]

\* return 1 from main
Return1(h) ==
    /\ pc' = "exit"
    /\ rc' = <<1>>
    /\ hist' = h

\* an exception nothing catches: a traceback, and the interpreter exits 1
Crash(h) ==
    /\ pc' = "crashed"
    /\ rc' = <<1>>
    /\ hist' = h

----------------------------------------------------------------------------
(* main, up to the confirmation *)

ParseArgs ==
    /\ pc = "parse_args"
    /\ \E y \in BOOLEAN, d \in DirInputs \cup {<<>>}, sv \in BOOLEAN, l \in BOOLEAN :
          args' = [yes |-> y, dir |-> d, save_scripts |-> sv, list_files |-> l]
    /\ pc' = "kernel_check"
    /\ UNCHANGED <<hostvars, windows, archive, fs, outside, script_file, rc,
                   extract_exclude, destination, dest_dir, tf_pos,
                   current_size, printed_checkpoints, scripts, script_idx,
                   reloc, real_env_setup_script, env_setup_script, hist>>

\* a kernel check that prints its error and goes on
KernelCheck_NoReturn ==
    /\ pc = "kernel_check"
    /\ ~windows
    /\ \E kernel_version \in KernelVersions, oldest \in OldestKernels :
          /\ pc' = "arch_check"
          /\ hist' = IF ver_lt(kernel_version, oldest)
                     THEN [hist EXCEPT !.message = "The SDK needs a kernel >"]
                     ELSE hist
    /\ UNCHANGED <<hostvars, windows, archive, fs, outside, script_file, args, rc,
                   extract_exclude, destination, dest_dir, tf_pos,
                   current_size, printed_checkpoints, scripts, script_idx,
                   reloc, real_env_setup_script, env_setup_script>>

\* if ver_lt(kernel_version, OLDEST_KERNEL): print the error, return 1
kernel_check(kernel_version, oldest) ==
    IF ver_lt(kernel_version, oldest)
    THEN Return1(Failed("The SDK needs a kernel >"))
    ELSE pc' = "arch_check" /\ UNCHANGED <<rc, hist>>

\* the kernel check of a run on any host, of an SDK built for any kernel
KernelCheck ==
    /\ pc = "kernel_check"
    /\ IF windows
       THEN pc' = "arch_check" /\ UNCHANGED <<rc, hist>>
       ELSE \E kernel_version \in KernelVersions, oldest \in OldestKernels :
               kernel_check(kernel_version, oldest)
    /\ UNCHANGED <<hostvars, windows, archive, fs, outside, script_file, args,
                   extract_exclude, destination, dest_dir, tf_pos,
                   current_size, printed_checkpoints, scripts, script_idx,
                   reloc, real_env_setup_script, env_setup_script>>

ArchCheck ==
    /\ pc = "arch_check"
    /\ \E machine \in Machines, sdk \in SdkArchs :
          IF arch_incompatible(translate_arch(machine), translate_arch(sdk))
          THEN Return1(Failed("Incompatible SDK installer: arch"))
          ELSE pc' = "gcc_check" /\ UNCHANGED <<rc, hist>>
    /\ UNCHANGED <<hostvars, windows, archive, fs, outside, script_file, args,
                   extract_exclude, destination, dest_dir, tf_pos,
                   current_size, printed_checkpoints, scripts, script_idx,
                   reloc, real_env_setup_script, env_setup_script>>

GccCheck ==
    /\ pc = "gcc_check"
    /\ \E extensible \in BOOLEAN, host_gcc_ver \in HostGccVersions,
          sdk_gcc_ver \in SdkGccVersions, ext_type \in SdkExtTypes :
          IF extensible /\ gcc_incompatible(host_gcc_ver, sdk_gcc_ver)
          THEN Return1(Failed("Incompatible SDK installer: gcc"))
               /\ UNCHANGED extract_exclude
          ELSE /\ extract_exclude' =
                     IF ~extensible THEN {}
                     ELSE {<<"ext-sdk-prepare.py">>} \cup
                          (IF ext_type = "minimal" THEN {<<"sstate-cache">>} ELSE {})
               /\ pc' = "pre_install"
               /\ hist' = Phase("COMPAT_CHECKED")
               /\ UNCHANGED rc
    /\ UNCHANGED <<hostvars, windows, archive, fs, outside, script_file, args,
                   destination, dest_dir, tf_pos,
                   current_size, printed_checkpoints, scripts, script_idx,
                   reloc, real_env_setup_script, env_setup_script>>

\* run_script, entered: the temporary script is created and written
PreInstallScript ==
    /\ pc = "pre_install"
    /\ IF windows
       THEN pc' = "choose_dest" /\ UNCHANGED <<script_file, hist>>
       ELSE /\ script_file' = TRUE
            /\ hist' = [hist EXCEPT !.temp_scripts = @ + 1]
            /\ pc' = "pre_install_run"
    /\ UNCHANGED <<hostvars, windows, archive, fs, outside, args, rc,
                   extract_exclude, destination, dest_dir, tf_pos,
                   current_size, printed_checkpoints, scripts, script_idx,
                   reloc, real_env_setup_script, env_setup_script>>

\* a pre-install hook whose exit status is not looked at
PreInstallRun_IgnoreStatus ==
    /\ pc = "pre_install_run"
    /\ script_file' = FALSE
    /\ \E status_ok \in BOOLEAN :
          hist' = [hist EXCEPT !.hooks = Append(@, "pre_install"),
                               !.message = IF status_ok THEN @
                                           ELSE "CalledProcessError"]
    /\ pc' = "choose_dest"
    /\ UNCHANGED <<hostvars, windows, archive, fs, outside, args, rc,
                   extract_exclude, destination, dest_dir, tf_pos,
                   current_size, printed_checkpoints, scripts, script_idx,
                   reloc, real_env_setup_script, env_setup_script>>

\* run_script, left: /bin/sh runs the script, which is removed either way
PreInstallRun ==
    /\ pc = "pre_install_run"
    /\ script_file' = FALSE
    /\ \E status_ok \in BOOLEAN :
          IF status_ok
          THEN /\ pc' = "choose_dest"
               /\ hist' = [hist EXCEPT !.hooks = Append(@, "pre_install")]
               /\ UNCHANGED rc
          ELSE Crash([Failed("CalledProcessError") EXCEPT
                         !.hooks = Append(@, "pre_install")])
    /\ UNCHANGED <<hostvars, windows, archive, fs, outside, args,
                   extract_exclude, destination, dest_dir, tf_pos,
                   current_size, printed_checkpoints, scripts, script_idx,
                   reloc, real_env_setup_script, env_setup_script>>

ChooseDestination ==
    /\ pc = "choose_dest"
    /\ \E typed \in DirInputs \cup {<<>>, EOF} :
          LET chosen == IF args.dir = <<>>
                        THEN IF args.yes THEN SDKPATH
                             ELSE IF typed \in {<<>>, EOF} THEN SDKPATH ELSE typed
                        ELSE args.dir
          IN destination' = abspath(chosen)
    /\ pc' = "validate_dest"
    /\ UNCHANGED <<hostvars, windows, archive, fs, outside, script_file, args, rc,
                   extract_exclude, dest_dir, tf_pos,
                   current_size, printed_checkpoints, scripts, script_idx,
                   reloc, real_env_setup_script, env_setup_script, hist>>

ValidateDestination ==
    /\ pc = "validate_dest"
    /\ IF dest_too_long(destination)
       THEN Return1(Failed("The target directory path is too long"))
       ELSE IF HasWhitespace(destination)
       THEN Return1(Failed("The target directory path contains whitespace"))
       ELSE /\ pc' = "confirm"
            /\ hist' = Phase("DESTINATION_CHOSEN")
            /\ UNCHANGED rc
    /\ UNCHANGED <<hostvars, windows, archive, fs, outside, script_file, args,
                   extract_exclude, destination, dest_dir, tf_pos,
                   current_size, printed_checkpoints, scripts, script_idx,
                   reloc, real_env_setup_script, env_setup_script>>

\* a confirmation whose refusal is printed and not obeyed
Confirm_Ignored ==
    /\ pc = "confirm"
    /\ \E user_input \in Answers :
          LET proceed ==
                IF exists(fs, outside, RealEnvName)
                THEN IF args.yes THEN TRUE ELSE prompt_bool(user_input, FALSE)
                ELSE IF args.yes THEN TRUE ELSE prompt_bool(user_input, TRUE)
          IN hist' = IF proceed THEN Phase("CONFIRMED")
                     ELSE [Phase("ABORTED") EXCEPT !.message = "Installation aborted"]
    /\ pc' = "try"
    /\ UNCHANGED <<hostvars, windows, archive, fs, outside, script_file, args, rc,
                   extract_exclude, destination, dest_dir, tf_pos,
                   current_size, printed_checkpoints, scripts, script_idx,
                   reloc, real_env_setup_script, env_setup_script>>

Confirm ==
    /\ pc = "confirm"
    /\ \E user_input \in Answers :
          LET proceed ==
                IF exists(fs, outside, RealEnvName)
                THEN IF args.yes THEN TRUE ELSE prompt_bool(user_input, FALSE)
                ELSE IF args.yes THEN TRUE ELSE prompt_bool(user_input, TRUE)
              asked == IF args.yes THEN "none"
                       ELSE IF exists(fs, outside, RealEnvName) THEN "overwrite"
                       ELSE "install"
              typed == IF args.yes THEN <<>> ELSE user_input
          IN IF ~proceed
             THEN Return1([Phase("ABORTED") EXCEPT !.message = "Installation aborted",
                                                   !.prompt = asked,
                                                   !.answer = typed])
             ELSE /\ pc' = "try"
                  /\ hist' = [Phase("CONFIRMED") EXCEPT !.prompt = asked,
                                                        !.answer = typed]
                  /\ UNCHANGED rc
    /\ UNCHANGED <<hostvars, windows, archive, fs, outside, script_file, args,
                   extract_exclude, destination, dest_dir, tf_pos,
                   current_size, printed_checkpoints, scripts, script_idx,
                   reloc, real_env_setup_script, env_setup_script>>

----------------------------------------------------------------------------
(* main: listing, and the extraction loop *)

\* a listing that falls through into the extraction
ListFiles_ThenExtract ==
    /\ pc = "try"
    /\ args.list_files
    /\ hist' = [hist EXCEPT !.listed = [i \in 1..Len(archive) |-> archive[i].name]]
    /\ pc' = "extract_next"
    /\ UNCHANGED <<hostvars, windows, archive, fs, outside, script_file, args, rc,
                   extract_exclude, destination, dest_dir, tf_pos,
                   current_size, printed_checkpoints, scripts, script_idx,
                   reloc, real_env_setup_script, env_setup_script>>

ListFiles ==
    /\ pc = "try"
    /\ args.list_files
    /\ hist' = [hist EXCEPT !.listed = [i \in 1..Len(archive) |-> archive[i].name]]
    /\ pc' = "exit"
    /\ rc' = <<0>>
    /\ UNCHANGED <<hostvars, windows, archive, fs, outside, script_file, args,
                   extract_exclude, destination, dest_dir, tf_pos,
                   current_size, printed_checkpoints, scripts, script_idx,
                   reloc, real_env_setup_script, env_setup_script>>

\* os.makedirs(destination, exist_ok=True), which may be denied
MakeDestination ==
    /\ pc = "try"
    /\ ~args.list_files
    /\ \E denied \in BOOLEAN :
          IF denied /\ ~dest_dir
          THEN Return1([Failed("Permission denied") EXCEPT !.makedirs = TRUE])
               /\ UNCHANGED <<dest_dir, current_size, printed_checkpoints>>
          ELSE /\ dest_dir' = TRUE
               /\ current_size' = 0
               /\ printed_checkpoints' = 0
               /\ hist' = [hist EXCEPT !.makedirs = TRUE]
               /\ pc' = "extract_next"
               /\ UNCHANGED rc
    /\ UNCHANGED <<hostvars, windows, archive, fs, outside, script_file, args,
                   extract_exclude, destination, tf_pos,
                   scripts, script_idx,
                   reloc, real_env_setup_script, env_setup_script>>

\* for f in tf: a member whose name holds an excluded string is passed over
ExtractSkip ==
    /\ pc = "extract_next"
    /\ tf_pos < Len(archive)
    /\ excluded(extract_exclude, archive[tf_pos + 1].name)
    /\ tf_pos' = tf_pos + 1
    /\ UNCHANGED <<hostvars, windows, archive, fs, outside, script_file, args, pc, rc,
                   extract_exclude, destination, dest_dir,
                   current_size, printed_checkpoints, scripts, script_idx,
                   reloc, real_env_setup_script, env_setup_script, hist>>

\* extract_file, its first half: what is in the way at dest is unlinked
\* (os.unlink may be denied)
ExtractFileUnlink ==
    /\ pc = "extract_next"
    /\ tf_pos < Len(archive)
    /\ ~excluded(extract_exclude, archive[tf_pos + 1].name)
    /\ LET dest == archive[tf_pos + 1].name IN
       \E denied \in BOOLEAN :
          IF denied /\ must_unlink(fs, outside, dest)
          THEN Return1(Failed("Permission denied")) /\ UNCHANGED fs
          ELSE /\ fs' = unlink_first(fs, outside, dest)
               /\ hist' = IF fs'[dest] # fs[dest]
                          THEN [hist EXCEPT !.unlinked =
                                   Append(@, [name |-> dest, was |-> fs[dest].kind])]
                          ELSE hist
               /\ pc' = "extract_member"
               /\ UNCHANGED rc
    /\ UNCHANGED <<hostvars, windows, archive, outside, script_file, args,
                   extract_exclude, destination, dest_dir, tf_pos,
                   current_size, printed_checkpoints, scripts, script_idx,
                   reloc, real_env_setup_script, env_setup_script>>

\* an extraction that reports a denied member and goes on with the next
ExtractFileMember_Skip ==
    /\ pc = "extract_member"
    /\ LET f == archive[tf_pos + 1]
           r == tar_extract(fs, outside, f)
           size == current_size + f.size
           num == new_ticks(size, printed_checkpoints)
       IN \E denied \in BOOLEAN :
          IF denied \/ ~r.ok
          THEN /\ hist' = [hist EXCEPT !.message = "Permission denied"]
               /\ UNCHANGED <<fs, outside, current_size, printed_checkpoints>>
          ELSE /\ fs' = r.fs
               /\ outside' = r.outside
               /\ current_size' = size
               /\ printed_checkpoints' = printed_checkpoints + num
               /\ hist' = [hist EXCEPT !.extracted = Append(@, f.name),
                                       !.ticks = @ + num]
    /\ tf_pos' = tf_pos + 1
    /\ pc' = "extract_next"
    /\ UNCHANGED <<hostvars, windows, archive, script_file, args, rc,
                   extract_exclude, destination, dest_dir,
                   scripts, script_idx,
                   reloc, real_env_setup_script, env_setup_script>>

\* extract_file, its second half: tf.extract and the progress dots.
\* tf.extract may be denied (PermissionError, caught: return 1) or fail
\* otherwise (an OSError nothing catches).
ExtractFileMember ==
    /\ pc = "extract_member"
    /\ LET f == archive[tf_pos + 1]
           r == tar_extract(fs, outside, f)
           size == current_size + f.size
           num == new_ticks(size, printed_checkpoints)
       IN \E denied \in BOOLEAN :
          IF denied
          THEN Return1(Failed("Permission denied"))
               /\ UNCHANGED <<fs, outside, tf_pos, current_size, printed_checkpoints>>
          ELSE IF ~r.ok
          THEN Crash(Failed("OSError"))
               /\ UNCHANGED <<fs, outside, tf_pos, current_size, printed_checkpoints>>
          ELSE /\ fs' = r.fs
               /\ outside' = r.outside
               /\ current_size' = size
               /\ printed_checkpoints' = printed_checkpoints + num
               /\ hist' = [hist EXCEPT !.extracted = Append(@, f.name),
                                       !.ticks = @ + num]
               /\ tf_pos' = tf_pos + 1
               /\ pc' = "extract_next"
               /\ UNCHANGED rc
    /\ UNCHANGED <<hostvars, windows, archive, script_file, args,
                   extract_exclude, destination, dest_dir,
                   scripts, script_idx,
                   reloc, real_env_setup_script, env_setup_script>>

\* a loop that may stop before the stream is exhausted
ExtractEnd_Early ==
    /\ pc = "extract_next"
    /\ tf_pos <= Len(archive)
    /\ pc' = "relocate_scan"
    /\ hist' = Phase("EXTRACTED")
    /\ UNCHANGED <<hostvars, windows, archive, fs, outside, script_file, args, rc,
                   extract_exclude, destination, dest_dir, tf_pos,
                   current_size, printed_checkpoints, scripts, script_idx,
                   reloc, real_env_setup_script, env_setup_script>>

\* the stream is exhausted
ExtractEnd ==
    /\ pc = "extract_next"
    /\ tf_pos = Len(archive)
    /\ pc' = "relocate_scan"
    /\ hist' = Phase("EXTRACTED")
    /\ UNCHANGED <<hostvars, windows, archive, fs, outside, script_file, args, rc,
                   extract_exclude, destination, dest_dir, tf_pos,
                   current_size, printed_checkpoints, scripts, script_idx,
                   reloc, real_env_setup_script, env_setup_script>>

----------------------------------------------------------------------------
(* relocate_file *)

\* one line of the file, rewritten
relocate_line(l, dest) == Replace(l, SDKPATH, dest)

has_marker(l) == HasSubstr(Marker, l)

\* what a whole call of relocate_file leaves in the file, and what it returns
relocate_content(c, dest) == [i \in 1..Len(c) |-> relocate_line(c[i], dest)]

is_real_env_script(c) == \E i \in 1..Len(c) : has_marker(c[i])

\* the call relocate_file(name)
Call(name, caller) ==
    [active |-> TRUE, name |-> name, opened |-> FALSE, orig |-> <<>>, line |-> 0,
     is_real_env_script |-> FALSE, caller |-> caller]

\* a relocation that rewrites the file in place
tmp_file_in_place(name) == name

\* where the rewritten lines of a call go
tmp_file(name) == Tmp(name)

\* open(path, "w") and write(l) on the open file: a link at path is followed
truncate(f, out, path) ==
    IF f[path].kind = "link"
    THEN [fs |-> f, outside |-> [out EXCEPT ![f[path].target] = FileNode(<<>>)]]
    ELSE [fs |-> [f EXCEPT ![path] = FileNode(<<>>)], outside |-> out]

write_line(f, out, path, l) ==
    IF f[path].kind = "link"
    THEN [fs |-> f,
          outside |-> [out EXCEPT ![f[path].target].content = Append(@, l)]]
    ELSE [fs |-> [f EXCEPT ![path].content = Append(@, l)], outside |-> out]

\* open(name, "r") and open(tmp_file, "w"): name must lead to a file; the
\* temporary file is created, or truncated when it is there.
RelocOpen ==
    /\ pc = "reloc_open"
    /\ LET src == Resolve(fs, outside, reloc.name)
           tmp == tmp_file(reloc.name)
           w == truncate(fs, outside, tmp)
       IN IF src.kind # "file" \/ Resolve(fs, outside, tmp).kind = "dir"
          THEN Crash(Failed("OSError")) /\ UNCHANGED <<fs, outside, reloc>>
          ELSE /\ fs' = w.fs
               /\ outside' = w.outside
               /\ reloc' = [reloc EXCEPT !.orig = src.content, !.opened = TRUE]
               /\ pc' = "reloc_line"
               /\ UNCHANGED <<rc, hist>>
    /\ UNCHANGED <<hostvars, windows, archive, script_file, args,
                   extract_exclude, destination, dest_dir, tf_pos,
                   current_size, printed_checkpoints, scripts, script_idx,
                   real_env_setup_script, env_setup_script>>

\* for l in f: one line is checked for the marker, rewritten and written
RelocLine ==
    /\ pc = "reloc_line"
    /\ reloc.line < Len(reloc.orig)
    /\ LET l == reloc.orig[reloc.line + 1]
           w == write_line(fs, outside, tmp_file(reloc.name),
                           relocate_line(l, destination))
       IN /\ reloc' = [reloc EXCEPT !.line = @ + 1,
                                    !.is_real_env_script = @ \/ has_marker(l)]
          /\ fs' = w.fs
          /\ outside' = w.outside
    /\ UNCHANGED <<hostvars, windows, archive, script_file, args, pc, rc,
                   extract_exclude, destination, dest_dir, tf_pos,
                   current_size, printed_checkpoints, scripts, script_idx,
                   real_env_setup_script, env_setup_script, hist>>

\* shutil.move(tmp_file, name), and the return to the caller
RelocMove ==
    /\ pc = "reloc_line"
    /\ reloc.line = Len(reloc.orig)
    /\ LET tmp == tmp_file(reloc.name) IN
       fs' = [fs EXCEPT ![reloc.name] = fs[tmp], ![tmp] = NoNode]
    /\ hist' = [hist EXCEPT !.relocated =
                     Append(@, [name |-> reloc.name, node |-> fs'[reloc.name]])]
    /\ reloc' = [reloc EXCEPT !.active = FALSE]
    /\ IF reloc.caller = "env"
       THEN /\ real_env_setup_script' =
                  IF reloc.is_real_env_script THEN reloc.name
                  ELSE real_env_setup_script
            /\ script_idx' = script_idx + 1
            /\ pc' = "relocate_loop"
       ELSE /\ pc' = "post_relocate_run"
            /\ UNCHANGED <<real_env_setup_script, script_idx>>
    /\ UNCHANGED <<hostvars, windows, archive, outside, script_file, args, rc,
                   extract_exclude, destination, dest_dir, tf_pos,
                   current_size, printed_checkpoints, scripts,
                   env_setup_script>>

\* a read or a write fails, or the run is interrupted, inside relocate_file
RelocFail ==
    /\ pc = "reloc_line"
    /\ Crash(Failed("interrupted"))
    /\ UNCHANGED <<hostvars, windows, archive, fs, outside, script_file, args,
                   extract_exclude, destination, dest_dir, tf_pos,
                   current_size, printed_checkpoints, scripts, script_idx,
                   reloc, real_env_setup_script, env_setup_script>>

----------------------------------------------------------------------------
(* main, after the extraction *)

\* for s in environment_setup_scripts(destination): the list is made once
RelocateScan ==
    /\ pc = "relocate_scan"
    /\ scripts' = environment_setup_scripts(fs)
    /\ script_idx' = 1
    /\ real_env_setup_script' = <<>>
    /\ pc' = "relocate_loop"
    /\ hist' = [hist EXCEPT !.scan = fs]
    /\ UNCHANGED <<hostvars, windows, archive, fs, outside, script_file, args, rc,
                   extract_exclude, destination, dest_dir, tf_pos,
                   current_size, printed_checkpoints,
                   reloc, env_setup_script>>

\* a loop that leaves the last script out
RelocateLoop_SkipLast ==
    /\ pc = "relocate_loop"
    /\ IF script_idx < Len(scripts)
       THEN /\ reloc' = Call(scripts[script_idx], "env")
            /\ pc' = "reloc_open"
            /\ UNCHANGED hist
       ELSE /\ pc' = "select_env"
            /\ hist' = Phase("RELOCATED")
            /\ UNCHANGED reloc
    /\ UNCHANGED <<hostvars, windows, archive, fs, outside, script_file, args, rc,
                   extract_exclude, destination, dest_dir, tf_pos,
                   current_size, printed_checkpoints, scripts, script_idx,
                   real_env_setup_script, env_setup_script>>

RelocateLoop ==
    /\ pc = "relocate_loop"
    /\ IF script_idx <= Len(scripts)
       THEN /\ reloc' = Call(scripts[script_idx], "env")
            /\ pc' = "reloc_open"
            /\ UNCHANGED hist
       ELSE /\ pc' = "select_env"
            /\ hist' = Phase("RELOCATED")
            /\ UNCHANGED reloc
    /\ UNCHANGED <<hostvars, windows, archive, fs, outside, script_file, args, rc,
                   extract_exclude, destination, dest_dir, tf_pos,
                   current_size, printed_checkpoints, scripts, script_idx,
                   real_env_setup_script, env_setup_script>>

\* the value main reads as env_setup_script after the loop
selected_env_script(real, env) == IF real # <<>> THEN real ELSE env

\* if real_env_setup_script: ...; then logging.info reads env_setup_script
SelectEnvScript ==
    /\ pc = "select_env"
    /\ LET s == selected_env_script(real_env_setup_script, env_setup_script) IN
       IF s = Unbound
       THEN Crash(Failed("UnboundLocalError")) /\ UNCHANGED env_setup_script
       ELSE /\ env_setup_script' = s
            /\ pc' = "post_install"
            /\ UNCHANGED <<rc, hist>>
    /\ UNCHANGED <<hostvars, windows, archive, fs, outside, script_file, args,
                   extract_exclude, destination, dest_dir, tf_pos,
                   current_size, printed_checkpoints, scripts, script_idx,
                   reloc, real_env_setup_script>>

PostInstallScript ==
    /\ pc = "post_install"
    /\ IF windows
       THEN pc' = "delete_relocate" /\ UNCHANGED <<script_file, hist>>
       ELSE /\ script_file' = TRUE
            /\ hist' = [hist EXCEPT !.temp_scripts = @ + 1]
            /\ pc' = "post_install_run"
    /\ UNCHANGED <<hostvars, windows, archive, fs, outside, args, rc,
                   extract_exclude, destination, dest_dir, tf_pos,
                   current_size, printed_checkpoints, scripts, script_idx,
                   reloc, real_env_setup_script, env_setup_script>>

PostInstallRun ==
    /\ pc = "post_install_run"
    /\ script_file' = FALSE
    /\ \E status_ok \in BOOLEAN :
          IF status_ok
          THEN /\ pc' = "delete_relocate"
               /\ hist' = [hist EXCEPT !.hooks = Append(@, "post_install")]
               /\ UNCHANGED rc
          ELSE Crash([Failed("CalledProcessError") EXCEPT
                         !.hooks = Append(@, "post_install")])
    /\ UNCHANGED <<hostvars, windows, archive, fs, outside, args,
                   extract_exclude, destination, dest_dir, tf_pos,
                   current_size, printed_checkpoints, scripts, script_idx,
                   reloc, real_env_setup_script, env_setup_script>>

\* os.remove of relocate_sdk.py and relocate_sdk.sh beside the environment
\* script, every failure passed over
DeleteRelocateScripts ==
    /\ pc = "delete_relocate"
    /\ LET gone == IF args.save_scripts THEN {}
                   ELSE {n \in RelocateScripts : fs[n].kind \in {"file", "link"}}
       IN /\ fs' = [n \in Names |-> IF n \in gone THEN NoNode ELSE fs[n]]
          /\ hist' = [hist EXCEPT !.removed = @ \cup gone]
    /\ pc' = "post_relocate"
    /\ UNCHANGED <<hostvars, windows, archive, outside, script_file, args, rc,
                   extract_exclude, destination, dest_dir, tf_pos,
                   current_size, printed_checkpoints, scripts, script_idx,
                   reloc, real_env_setup_script, env_setup_script>>

\* a post-relocate script that is run as it was extracted
PostRelocate_NoRelocate ==
    /\ pc = "post_relocate"
    /\ pc' = IF exists(fs, outside, PostRelocateName)
             THEN "post_relocate_run" ELSE "finish"
    /\ UNCHANGED <<hostvars, windows, archive, fs, outside, script_file, args, rc,
                   extract_exclude, destination, dest_dir, tf_pos,
                   current_size, printed_checkpoints, scripts, script_idx,
                   reloc, real_env_setup_script, env_setup_script, hist>>

\* if os.path.exists(post_relocate_script): relocate_file(...)
PostRelocate ==
    /\ pc = "post_relocate"
    /\ IF exists(fs, outside, PostRelocateName)
       THEN /\ reloc' = Call(PostRelocateName, "post")
            /\ pc' = "reloc_open"
       ELSE /\ pc' = "finish"
            /\ UNCHANGED reloc
    /\ UNCHANGED <<hostvars, windows, archive, fs, outside, script_file, args, rc,
                   extract_exclude, destination, dest_dir, tf_pos,
                   current_size, printed_checkpoints, scripts, script_idx,
                   real_env_setup_script, env_setup_script, hist>>

\* run_command("/bin/sh", post_relocate_script, ...) and its removal
PostRelocateRun ==
    /\ pc = "post_relocate_run"
    /\ \E status_ok \in BOOLEAN :
          IF ~windows /\ ~status_ok
          THEN Crash([Failed("CalledProcessError") EXCEPT
                         !.hooks = Append(@, "post_relocate")])
               /\ UNCHANGED fs
          ELSE /\ hist' = [hist EXCEPT
                             !.hooks = IF windows THEN @ ELSE Append(@, "post_relocate"),
                             !.removed = IF args.save_scripts THEN @
                                         ELSE @ \cup {PostRelocateName}]
               /\ fs' = IF args.save_scripts THEN fs
                        ELSE [fs EXCEPT ![PostRelocateName] = NoNode]
               /\ pc' = "finish"
               /\ UNCHANGED rc
    /\ UNCHANGED <<hostvars, windows, archive, outside, script_file, args,
                   extract_exclude, destination, dest_dir, tf_pos,
                   current_size, printed_checkpoints, scripts, script_idx,
                   reloc, real_env_setup_script, env_setup_script>>

\* the closing messages, and return 0
Finish ==
    /\ pc = "finish"
    /\ pc' = "exit"
    /\ rc' = <<0>>
    /\ hist' = Phase("DONE")
    /\ UNCHANGED <<hostvars, windows, archive, fs, outside, script_file, args,
                   extract_exclude, destination, dest_dir, tf_pos,
                   current_size, printed_checkpoints, scripts, script_idx,
                   reloc, real_env_setup_script, env_setup_script>>

----------------------------------------------------------------------------
(* The installer *)

RelocateSdkPy == <<"relocate_sdk.py">>
ExtSdkPrepare == <<"ext-sdk-prepare.py">>
SstateMember == <<"sstate-cache", "/x">>
MySstate == <<"my-", "sstate-cache", ".txt">>
Sysroots == <<"sysroots">>

\* a relocated environment script left by an earlier install
PriorContent == << <<"export ", "OECORE_NATIVE_SYSROOT=", "/home", "/sysroots">> >>

\* The archives the installer is run with.
Archives ==
    { <<>>,
      <<FileEntry(EnvA, 1, PlainContent)>>,
      <<FileEntry(EnvA, CHECKPOINT, MarkedContent),
        FileEntry(RealEnvName, CHECKPOINT, PlainContent)>>,
      <<FileEntry(EnvA, 1, MarkedContent), FileEntry(EnvATmp, 1, PlainContent)>>,
      <<DirEntry(Sysroots), FileEntry(EnvA, CHECKPOINT - 1, PlainContent),
        FileEntry(RealEnvName, 1, MarkedContent),
        FileEntry(PostRelocateName, 0, PlainContent),
        FileEntry(RelocateSdkPy, 0, PlainContent)>>,
      <<FileEntry(ExtSdkPrepare, 1, PlainContent), DirEntry(SstateMember),
        FileEntry(MySstate, 2 * CHECKPOINT, PlainContent),
        SymEntry(EnvA), FileEntry(RealEnvName, 1, MarkedContent)>> }

\* What the destination holds before the run.
Trees ==
    { EmptyTree,
      [EmptyTree EXCEPT ![RealEnvName] = FileNode(PriorContent),
                        ![RelocateSdkPy] = FileNode(OldContent)],
      [EmptyTree EXCEPT ![EnvATmp] = FileNode(OldContent)],
      [EmptyTree EXCEPT ![EnvA] = LinkNode("outfile"),
                        ![Sysroots] = DirNode] }

Init == \E a \in Archives, f \in Trees : Start(a, f)

Next ==
    \/ ParseArgs
    \/ KernelCheck
    \/ ArchCheck
    \/ GccCheck
    \/ PreInstallScript
    \/ PreInstallRun
    \/ ChooseDestination
    \/ ValidateDestination
    \/ Confirm
    \/ ListFiles
    \/ MakeDestination
    \/ ExtractSkip
    \/ ExtractFileUnlink
    \/ ExtractFileMember
    \/ ExtractEnd
    \/ RelocateScan
    \/ RelocateLoop
    \/ RelocOpen
    \/ RelocLine
    \/ RelocMove
    \/ RelocFail
    \/ SelectEnvScript
    \/ PostInstallScript
    \/ PostInstallRun
    \/ DeleteRelocateScripts
    \/ PostRelocate
    \/ PostRelocateRun
    \/ Finish

Spec == Init /\ [][Next]_vars

----------------------------------------------------------------------------
(* The extractor alone: main from the try block to the end of the stream, *)
(* for every archive of up to MaxEntries members of a catalogue and every  *)
(* kind of node in the way.                                                *)

MaxEntries == 3

Catalogue ==
    { FileEntry(EnvA, CHECKPOINT - 1, MarkedContent),
      FileEntry(EnvA, 1, PlainContent),
      FileEntry(ExtSdkPrepare, CHECKPOINT, PlainContent),
      FileEntry(SstateMember, 1, PlainContent),
      FileEntry(MySstate, 2 * CHECKPOINT, PlainContent),
      DirEntry(Sysroots),
      SymEntry(Sysroots) }

SeqsUpTo(S, n) == UNION {[1..k -> S] : k \in 0..n}

ExcludeSets == { {}, {ExtSdkPrepare}, {ExtSdkPrepare, <<"sstate-cache">>} }

\* a node of every kind in the way of a member
InTheWay == {FileNode(OldContent), DirNode} \cup
            {LinkNode(t) : t \in {"outfile", "outdir", "gone"}}

ExtractTrees ==
    {EmptyTree} \cup
    {[EmptyTree EXCEPT ![n] = nd] : n \in {EnvA, Sysroots}, nd \in InTheWay}

InitExtract ==
    /\ windows = FALSE
    /\ archive \in SeqsUpTo(Catalogue, MaxEntries)
    /\ fs \in ExtractTrees
    /\ outside = Outside0
    /\ script_file = FALSE
    /\ args = [Args0 EXCEPT !.yes = TRUE]
    /\ pc = "try"
    /\ rc = <<>>
    /\ extract_exclude \in ExcludeSets
    /\ destination = SDKPATH
    /\ dest_dir \in (IF fs = EmptyTree THEN BOOLEAN ELSE {TRUE})
    /\ tf_pos = 0
    /\ current_size = 0
    /\ printed_checkpoints = 0
    /\ scripts = <<>>
    /\ script_idx = 0
    /\ reloc = NoFrame
    /\ real_env_setup_script = <<>>
    /\ env_setup_script = Unbound
    /\ hist = [Hist0 EXCEPT
                 !.phases = <<"START", "COMPAT_CHECKED", "DESTINATION_CHOSEN",
                              "CONFIRMED">>,
                 !.temp_scripts = 1,
                 !.hooks = <<"pre_install">>,
                 !.tree0 = fs,
                 !.dest_dir0 = dest_dir]
    /\ environ = ShellEnviron
    /\ execs = 0
    /\ kernel_release = <<>>
    /\ oldest_kernel = <<>>

NextExtract ==
    \/ MakeDestination
    \/ ExtractSkip
    \/ ExtractFileUnlink
    \/ ExtractFileMember
    \/ ExtractEnd

SpecExtract == InitExtract /\ [][NextExtract]_vars

----------------------------------------------------------------------------
(* relocate_file alone, as a function of the file, applied again and again *)
(* to the same file with the same destination.                             *)

MaxLineLen == 3
MaxRelocations == 2

RelocLines == SeqsUpTo({"/opt", "/sdk", "x"}, MaxLineLen)

RelocDests == {<<"/home">>, <<"/opt">>, <<"/opt", "/sdk", "/new">>,
               <<"/cwd", "/", "sdk">>}

InitRelocate ==
    /\ windows = FALSE
    /\ archive = <<>>
    /\ \E l \in RelocLines :
          fs = [EmptyTree EXCEPT ![PostRelocateName] = FileNode(<<l>>)]
    /\ outside = Outside0
    /\ script_file = FALSE
    /\ args = [Args0 EXCEPT !.yes = TRUE]
    /\ pc = "relocate_file"
    /\ rc = <<>>
    /\ extract_exclude = {}
    /\ destination \in RelocDests
    /\ dest_dir = TRUE
    /\ tf_pos = 0
    /\ current_size = 0
    /\ printed_checkpoints = 0
    /\ scripts = <<>>
    /\ script_idx = 0
    /\ reloc = NoFrame
    /\ real_env_setup_script = <<>>
    /\ env_setup_script = Unbound
    /\ hist = [Hist0 EXCEPT !.tree0 = fs, !.dest_dir0 = TRUE]
    /\ environ = ShellEnviron
    /\ execs = 0
    /\ kernel_release = <<>>
    /\ oldest_kernel = <<>>

\* a whole call relocate_file(post_relocate_script)
RelocateFile ==
    /\ pc = "relocate_file"
    /\ Len(hist.relocated) < MaxRelocations
    /\ LET name == PostRelocateName
           c == relocate_content(fs[name].content, destination)
       IN /\ fs' = [fs EXCEPT ![name] = FileNode(c)]
          /\ hist' = [hist EXCEPT !.relocated =
                         Append(@, [name |-> name, node |-> FileNode(c)])]
    /\ UNCHANGED <<hostvars, windows, archive, outside, script_file, args, pc, rc,
                   extract_exclude, destination, dest_dir, tf_pos,
                   current_size, printed_checkpoints, scripts, script_idx,
                   reloc, real_env_setup_script, env_setup_script>>

SpecRelocate == InitRelocate /\ [][RelocateFile]_vars

----------------------------------------------------------------------------
(* The kernel check alone, on a given host and for a given OLDEST_KERNEL: *)
(* every pair of versions of up to MaxSegments segments.                   *)

MaxSegments == 3

Segments == {0, 3, 9, 10}

Versions == SeqsUpTo(Segments, MaxSegments) \ {<<>>}

InitVersion ==
    /\ windows = FALSE
    /\ archive = <<>>
    /\ fs = EmptyTree
    /\ outside = Outside0
    /\ script_file = FALSE
    /\ args = Args0
    /\ pc = "kernel_check"
    /\ rc = <<>>
    /\ extract_exclude = {}
    /\ destination = <<>>
    /\ dest_dir = FALSE
    /\ tf_pos = 0
    /\ current_size = 0
    /\ printed_checkpoints = 0
    /\ scripts = <<>>
    /\ script_idx = 0
    /\ reloc = NoFrame
    /\ real_env_setup_script = <<>>
    /\ env_setup_script = Unbound
    /\ hist = Hist0
    /\ environ = ShellEnviron
    /\ execs = 0
    /\ kernel_release \in Versions
    /\ oldest_kernel \in Versions

\* the kernel check on the host at hand
KernelCheckHost ==
    /\ pc = "kernel_check"
    /\ ~windows
    /\ kernel_check(kernel_release, oldest_kernel)
    /\ UNCHANGED <<hostvars, windows, archive, fs, outside, script_file, args,
                   extract_exclude, destination, dest_dir, tf_pos,
                   current_size, printed_checkpoints, scripts, script_idx,
                   reloc, real_env_setup_script, env_setup_script>>

SpecVersion == InitVersion /\ [][KernelCheckHost]_vars

----------------------------------------------------------------------------
(* The entry of the script: check_env, up to the call of main, from every  *)
(* starting environment.                                                   *)

StartPaths == {Unset,
               <<"/bin">>,
               <<"/usr/sbin", ":", "/bin">>,
               <<"/bin", ":", "/usr/sbin", ":", "/sbin">>,
               <<"/bin", ":", ".">>,
               <<"/bin", ":", ":", "/usr/bin">>,
               <<"/bin", ":", ".", "local">>}

StartEnvirons ==
    {[NoEnviron EXCEPT !["ENVCLEANED"] = c, !["PATH"] = p, !["HOME"] = h,
                       !["TERM"] = t, !["LC_ALL"] = lc, !["LD_PRELOAD"] = ld] :
        c \in {Unset, <<>>, <<"1">>}, p \in StartPaths,
        h \in {Unset, <<"/root">>}, t \in {Unset, <<"xterm">>},
        lc \in {Unset, <<"C">>}, ld \in {Unset, <<"evil.so">>}}

InitEnv ==
    /\ windows \in BOOLEAN
    /\ archive = <<>>
    /\ fs = EmptyTree
    /\ outside = Outside0
    /\ script_file = FALSE
    /\ args = Args0
    /\ pc = "check_env"
    /\ rc = <<>>
    /\ extract_exclude = {}
    /\ destination = <<>>
    /\ dest_dir = FALSE
    /\ tf_pos = 0
    /\ current_size = 0
    /\ printed_checkpoints = 0
    /\ scripts = <<>>
    /\ script_idx = 0
    /\ reloc = NoFrame
    /\ real_env_setup_script = <<>>
    /\ env_setup_script = Unbound
    /\ environ \in StartEnvirons
    /\ execs = 0
    /\ kernel_release = <<>>
    /\ oldest_kernel = <<>>
    /\ hist = [Hist0 EXCEPT !.environ0 = environ]

\* if not os.environ.get("ENVCLEANED"): os.execv("/usr/bin/env", args).
\* The process image is replaced; the installer starts again from the top
\* in the environment env(1) hands to it.
CheckEnvExec ==
    /\ pc = "check_env"
    /\ ~windows
    /\ ~env_cleaned(environ)
    /\ environ' = usr_bin_env(execv_args(environ), environ)
    /\ execs' = execs + 1
    /\ UNCHANGED <<kernel_release, oldest_kernel, windows, archive, fs, outside,
                   script_file, args, pc, rc,
                   extract_exclude, destination, dest_dir, tf_pos,
                   current_size, printed_checkpoints, scripts, script_idx,
                   reloc, real_env_setup_script, env_setup_script, hist>>

\* check_env returns: at once on Windows; otherwise after PATH was stripped
\* and extended, which reads os.environ["PATH"] (KeyError when it is unset)
CheckEnvPath ==
    /\ pc = "check_env"
    /\ IF windows
       THEN pc' = "parse_args" /\ UNCHANGED <<environ, rc, hist>>
       ELSE /\ env_cleaned(environ)
            /\ IF environ["PATH"] = Unset
               THEN Crash(Failed("KeyError")) /\ UNCHANGED environ
               ELSE /\ environ' = [environ EXCEPT !["PATH"] = normalized_path(@)]
                    /\ pc' = "parse_args"
                    /\ UNCHANGED <<rc, hist>>
    /\ UNCHANGED <<execs, kernel_release, oldest_kernel, windows, archive, fs,
                   outside, script_file, args,
                   extract_exclude, destination, dest_dir, tf_pos,
                   current_size, printed_checkpoints, scripts, script_idx,
                   reloc, real_env_setup_script, env_setup_script>>

NextEnv ==
    \/ CheckEnvExec
    \/ CheckEnvPath

SpecEnv == InitEnv /\ [][NextEnv]_vars

\* the process keeps running until it exits
SpecEnvLive == SpecEnv /\ WF_vars(NextEnv)

----------------------------------------------------------------------------
(* Claims *)

\* the names of the members of q that hold no excluded string, in order
RECURSIVE KeptNames(_, _)
KeptNames(q, exclude) ==
    IF q = <<>> THEN <<>>
    ELSE (IF \E x \in exclude : HasSubstr(x, Head(q).name)
          THEN <<>> ELSE <<Head(q).name>>) \o KeptNames(Tail(q), exclude)

\* C1: whatever the archive and the exclusion set, the members handed to
\* tf.extract are, at every point of the loop, exactly the members read so
\* far whose name holds no excluded string, each once and in stream order;
\* when the loop ends every such name is present under the destination and
\* every other path is as it was before the run.
C1_ExtractedIsArchiveMinusExcluded ==
    /\ hist.extracted = KeptNames(SubSeq(archive, 1, tf_pos), extract_exclude)
    /\ pc = "relocate_scan" =>
          /\ tf_pos = Len(archive)
          /\ \A n \in Names :
                IF n \in Range(KeptNames(archive, extract_exclude))
                THEN fs[n].kind # "none"
                ELSE fs[n] = hist.tree0[n]

C1_Witness ==
    /\ pc = "relocate_scan"
    /\ Len(archive) = 3
    /\ Len(hist.extracted) = 2
    /\ hist.extracted[1] # hist.extracted[2]
    /\ archive[1].name = SstateMember

\* the node a member leaves at its path
NodeOf(e) ==
    CASE e.type = "file" -> FileNode(e.content)
      [] e.type = "dir" -> DirNode
      [] OTHER -> LinkNode(e.linkname)

\* C2: when tf.extract is about to write a member, no link and no other
\* non-directory is at its path any more; nothing is ever written behind a
\* link that was in the tree; a real directory is never unlinked; and after
\* the member is extracted its path holds the member itself.
C2_LinkUnlinkedBeforeExtract ==
    /\ outside = Outside0
    /\ pc = "extract_member" => fs[archive[tf_pos + 1].name].kind \in {"none", "dir"}
    /\ \A i \in 1..Len(hist.unlinked) : hist.unlinked[i].was # "dir"
    /\ \A n \in Names :
          (hist.tree0[n].kind = "dir" /\ fs[n].kind # "dir") => n \in Range(hist.extracted)
    /\ (pc = "extract_next" /\ tf_pos > 0
          /\ ~(\E x \in extract_exclude : HasSubstr(x, archive[tf_pos].name)))
       => fs[archive[tf_pos].name] = NodeOf(archive[tf_pos])

C2_Witness ==
    /\ pc = "extract_next"
    /\ tf_pos > 0
    /\ hist.tree0[archive[tf_pos].name].kind = "link"
    /\ hist.tree0[archive[tf_pos].name].target = "outfile"
    /\ archive[tf_pos].type = "file"
    /\ fs[archive[tf_pos].name] = FileNode(archive[tf_pos].content)

\* C3 (as claimed): relocating a file a second time with the same SDKPATH
\* and the same destination leaves what the first relocation left.
C3_RelocateTwiceIsOnce ==
    Len(hist.relocated) >= 2 => hist.relocated[2].node = hist.relocated[1].node

MarkedScriptFound ==
    /\ scripts # <<>>
    /\ \A i \in 1..Len(scripts) : hist.scan[scripts[i]].kind = "file"
    /\ \E i \in 1..Len(scripts) : is_real_env_script(hist.scan[scripts[i]].content)

LastMarkedScript ==
    LET marked == {i \in 1..Len(scripts) :
                      is_real_env_script(hist.scan[scripts[i]].content)}
    IN scripts[CHOOSE i \in marked : \A j \in marked : j <= i]

RelocatedNames == [i \in 1..Len(hist.relocated) |-> hist.relocated[i].name]

\* C5 (as claimed): when the scripts matching environment-setup-* are files
\* and one of them holds the marker, each is there to be relocated when its
\* turn comes, they are relocated once each in sorted order, and the script
\* used afterwards is the last one holding the marker.
C5_EveryScriptRelocatedOnce ==
    MarkedScriptFound =>
       /\ (pc = "reloc_open" /\ reloc.caller = "env") =>
             Resolve(fs, outside, reloc.name).kind = "file"
       /\ (pc \in {"relocate_loop", "reloc_open", "reloc_line"} /\ reloc.caller # "post") =>
             RelocatedNames = SubSeq(scripts, 1, script_idx - 1)
       /\ pc \in {"post_install", "post_install_run", "delete_relocate",
                  "post_relocate", "post_relocate_run", "finish"} =>
             env_setup_script = LastMarkedScript

\* C6 (as claimed): when no script holds the marker, main still has an
\* environment script after the loop and goes on.
C6_EnvScriptDefinedWithoutMarker ==
    ("RELOCATED" \in Range(hist.phases) /\ real_env_setup_script = <<>>
        /\ pc # "select_env")
    => (pc # "crashed" /\ env_setup_script # Unbound)

PhaseOrder == <<"START", "COMPAT_CHECKED", "DESTINATION_CHOSEN", "CONFIRMED",
                "EXTRACTED", "RELOCATED", "DONE">>

IsPrefix(p, q) == Len(p) <= Len(q) /\ SubSeq(q, 1, Len(p)) = p

Reached(p) == p \in Range(hist.phases)

\* the phases of the run so far, without the failure that ended it
PhasesPassed ==
    LET n == Len(hist.phases) IN
    IF hist.phases[n] \in {"FAILED", "ABORTED"}
    THEN SubSeq(hist.phases, 1, n - 1) ELSE hist.phases

\* C7: the phases are passed in the order START .. DONE; nothing is created,
\* unlinked or extracted at the destination before the checks passed, the
\* destination was validated and the run was confirmed; nothing is
\* relocated before every member of the stream was read and every kept one
\* extracted; and an installing run that returns 0 has passed every phase.
C7_PhasesInOrder ==
    /\ IsPrefix(PhasesPassed, PhaseOrder)
    /\ (hist.makedirs \/ hist.unlinked # <<>> \/ hist.extracted # <<>>
           \/ pc = "extract_member") =>
          /\ Reached("COMPAT_CHECKED")
          /\ Reached("DESTINATION_CHOSEN")
          /\ Reached("CONFIRMED")
          /\ StrLen(destination) <= MaxDestLen
          /\ ~HasWhitespace(destination)
    /\ (hist.relocated # <<>> \/ reloc.active \/ scripts # <<>>) =>
          /\ Reached("EXTRACTED")
          /\ tf_pos = Len(archive)
          /\ hist.extracted = KeptNames(archive, extract_exclude)
    /\ (rc = <<0>> /\ ~args.list_files) => hist.phases = PhaseOrder

C7_Witness ==
    /\ rc = <<0>>
    /\ ~args.list_files
    /\ Len(hist.extracted) >= 2
    /\ Len(hist.relocated) >= 2

\* C8 (as claimed): no hook runs before the scripts are relocated.
C8_HooksOnlyAfterRelocated ==
    (pc = "pre_install_run" \/ hist.hooks # <<>>) => Reached("RELOCATED")

\* C8 (amended): the post-install hook runs only after the whole stream was
\* extracted and every globbed script relocated; the pre-install hook runs
\* after the compatibility checks and before the destination is chosen;
\* the hooks run in the order pre-install, post-install, each at most once.
C8_PostInstallAfterRelocated ==
    /\ IsPrefix(hist.hooks, <<"pre_install", "post_install", "post_relocate">>)
    /\ (pc = "post_install_run" \/ "post_install" \in Range(hist.hooks)) =>
          /\ Reached("RELOCATED")
          /\ tf_pos = Len(archive)
          /\ \A i \in 1..Len(scripts) : scripts[i] \in Range(RelocatedNames)
    /\ pc = "pre_install_run" =>
          /\ Reached("COMPAT_CHECKED")
          /\ ~Reached("DESTINATION_CHOSEN")
          /\ destination = <<>>
          /\ hist.hooks = <<>>
    /\ (Reached("DESTINATION_CHOSEN") /\ ~windows) => hist.hooks[1] = "pre_install"

C8_Witness ==
    /\ pc = "delete_relocate"
    /\ hist.hooks = <<"pre_install", "post_install">>
    /\ Len(scripts) = 2

BadDestination == StrLen(destination) > MaxDestLen \/ HasWhitespace(destination)

\* C9 (as claimed): when the destination is rejected, no temporary script
\* was written and no hook was run, no directory made, nothing extracted.
C9_RejectedBeforeAnyWrite ==
    (pc = "exit" /\ BadDestination) =>
       /\ hist.temp_scripts = 0
       /\ hist.hooks = <<>>
       /\ ~hist.makedirs
       /\ hist.extracted = <<>>

\* C9 (amended): a destination longer than 2048 characters or holding
\* whitespace never gets past its validation: the run exits with 1, the
\* destination tree is as it was, nothing was made, unlinked, extracted or
\* relocated and the post-install hook was not run; only the pre-install
\* hook has run by then (not on Windows), and its script is removed.
C9_RejectedBeforeDestinationWrites ==
    (BadDestination /\ pc # "validate_dest") =>
       /\ pc = "exit"
       /\ rc = <<1>>
       /\ fs = hist.tree0
       /\ outside = Outside0
       /\ dest_dir = hist.dest_dir0
       /\ ~hist.makedirs
       /\ hist.unlinked = <<>>
       /\ hist.extracted = <<>>
       /\ hist.relocated = <<>>
       /\ script_file = FALSE
       /\ hist.hooks = (IF windows THEN <<>> ELSE <<"pre_install">>)
       /\ hist.temp_scripts = (IF windows THEN 0 ELSE 1)

C9_Witness ==
    /\ pc = "exit"
    /\ rc = <<1>>
    /\ StrLen(destination) = MaxDestLen + 1
    /\ hist.hooks = <<"pre_install">>

CompatMessages == {"The SDK needs a kernel >", "Incompatible SDK installer: arch",
                   "Incompatible SDK installer: gcc"}

\* C10: once a compatibility check has printed its error, the run has
\* returned 1 and has changed nothing: no hook script was written or run,
\* the destination was not made and its tree is as it was.
C10_CompatFailureMutatesNothing ==
    hist.message \in CompatMessages =>
       /\ pc = "exit"
       /\ rc = <<1>>
       /\ fs = hist.tree0
       /\ outside = Outside0
       /\ dest_dir = hist.dest_dir0
       /\ script_file = FALSE
       /\ hist.temp_scripts = 0
       /\ hist.hooks = <<>>
       /\ ~hist.makedirs
       /\ hist.unlinked = <<>>
       /\ hist.extracted = <<>>
       /\ hist.relocated = <<>>

C10_Witness ==
    /\ pc = "exit"
    /\ rc = <<1>>
    /\ hist.message = "Incompatible SDK installer: gcc"
    /\ ~dest_dir

\* a comes before b when the segments are compared as numbers from the
\* left: at the first place where they differ a has the smaller number, or
\* a has ended there and b has not
Precedes(a, b) ==
    \E i \in 1..Len(b) :
       /\ i <= Len(a) + 1
       /\ \A j \in 1..(i - 1) : a[j] = b[j]
       /\ (i = Len(a) + 1 \/ a[i] < b[i])

\* C18: ver_lt is the strict segment-wise numeric order of versions: never
\* true of a version and itself, never true both ways, true exactly when
\* the first version precedes the second, so true of 3.9 and 3.10 and false
\* of 3.10 and 3.9; and the kernel check ends the run with 1 exactly when
\* ver_lt(kernel_version, OLDEST_KERNEL) holds, and goes on otherwise.
C18_VerLtIsNumericOrder ==
    /\ ~ver_lt(kernel_release, kernel_release)
    /\ ~(ver_lt(kernel_release, oldest_kernel) /\ ver_lt(oldest_kernel, kernel_release))
    /\ ver_lt(kernel_release, oldest_kernel) <=> Precedes(kernel_release, oldest_kernel)
    /\ ver_lt(<<3, 9>>, <<3, 10>>)
    /\ ~ver_lt(<<3, 10>>, <<3, 9>>)
    /\ pc # "kernel_check" =>
          IF Precedes(kernel_release, oldest_kernel)
          THEN pc = "exit" /\ rc = <<1>> /\ hist.message = "The SDK needs a kernel >"
          ELSE pc = "arch_check" /\ rc = <<>> /\ hist.message = ""

C18_Witness ==
    /\ pc = "exit"
    /\ rc = <<1>>
    /\ kernel_release = <<3, 9>>
    /\ oldest_kernel = <<3, 10, 0>>

AllowListed == Range(PRESERVED_ENVS) \cup {"ENVCLEANED", "LC_ALL"}

\* C17 (as claimed): once check_env has re-invoked the installer, its
\* environment holds the marker, the locale and the allow-listed variables
\* with the values they had, and no other variable.
C17_OnlyAllowListedSurvive ==
    execs >= 1 =>
       /\ environ["ENVCLEANED"] = <<"1">>
       /\ environ["LC_ALL"] = <<"en_US.UTF8">>
       /\ \A e \in Range(PRESERVED_ENVS) :
             hist.environ0[e] # Unset => environ[e] = hist.environ0[e]
       /\ \A e \in EnvNames \ AllowListed : environ[e] = Unset

\* main was entered
MainReached == pc = "parse_args"

\* C19 (as claimed): the installer replaces its image at most once, a run
\* started without the marker does so exactly once before it enters main
\* and a run started with it never does, and from every starting
\* environment the run enters main.
C19_ReexecOnceThenMain ==
    /\ [](execs <= 1)
    /\ []((MainReached /\ ~windows) =>
             execs = (IF env_cleaned(hist.environ0) THEN 0 ELSE 1))
    /\ <>MainReached

\* C11: when the confirmation was declined the run has returned 1 in
\* ABORTED and nothing was destroyed: the destination was not made, its
\* tree and what its links lead to are as they were, nothing was unlinked,
\* extracted, relocated or removed, and the post-install hook was not run;
\* and an answer of n at the prompt always ends the run this way.
C11_DeclineMutatesNothing ==
    /\ Reached("ABORTED") =>
          /\ pc = "exit"
          /\ rc = <<1>>
          /\ ~args.yes
          /\ hist.prompt \in {"install", "overwrite"}
          /\ fs = hist.tree0
          /\ outside = Outside0
          /\ dest_dir = hist.dest_dir0
          /\ ~hist.makedirs
          /\ hist.listed = <<>>
          /\ hist.unlinked = <<>>
          /\ hist.extracted = <<>>
          /\ hist.relocated = <<>>
          /\ hist.removed = {}
          /\ script_file = FALSE
          /\ "post_install" \notin Range(hist.hooks)
          /\ "post_relocate" \notin Range(hist.hooks)
    /\ (hist.prompt # "none" /\ hist.answer = <<"n">>) => Reached("ABORTED")

C11_Witness ==
    /\ Reached("ABORTED")
    /\ hist.answer = <<"n">>
    /\ hist.prompt = "overwrite"
    /\ fs[RealEnvName] = FileNode(PriorContent)
    /\ hist.hooks = <<"pre_install">>

\* C12: once a write at the destination was denied (os.makedirs, os.unlink
\* or tf.extract) the run has returned 1 and has stopped at that member:
\* the members before it that were to be extracted are in place as
\* extracted, no member after it was read, nothing was relocated or
\* removed, neither the post-install nor the post-relocate hook was run
\* and the run never reaches EXTRACTED or DONE.
C12_PermissionDeniedStopsRun ==
    hist.message = "Permission denied" =>
       /\ pc = "exit"
       /\ rc = <<1>>
       /\ hist.phases[Len(hist.phases)] = "FAILED"
       /\ ~Reached("EXTRACTED")
       /\ ~Reached("DONE")
       /\ hist.makedirs
       /\ (tf_pos < Len(archive) \/ hist.extracted = <<>>)
       /\ hist.extracted = KeptNames(SubSeq(archive, 1, tf_pos), extract_exclude)
       /\ \A i \in 1..tf_pos :
             ~(\E x \in extract_exclude : HasSubstr(x, archive[i].name))
                => fs[archive[i].name] = NodeOf(archive[i])
       /\ scripts = <<>>
       /\ ~reloc.active
       /\ hist.relocated = <<>>
       /\ hist.removed = {}
       /\ script_file = FALSE
       /\ "post_install" \notin Range(hist.hooks)
       /\ "post_relocate" \notin Range(hist.hooks)

C12_Witness ==
    /\ hist.message = "Permission denied"
    /\ pc = "exit"
    /\ Len(hist.extracted) = 2
    /\ tf_pos = 2
    /\ Len(archive) = 5
    /\ fs[archive[2].name] = NodeOf(archive[2])

\* C13: when a hook has exited with a non-zero status the run has ended
\* with a traceback and a status that is not 0, never reaches DONE, and no
\* step after the failed hook was taken: after the pre-install hook no
\* destination was chosen and nothing made or extracted, after the
\* post-install hook nothing was removed and the post-relocate script was
\* neither relocated nor run, after the post-relocate script nothing was
\* removed; and the temporary script of run_script exists only while its
\* hook is being run.
C13_HookFailureIsFatal ==
    /\ hist.message = "CalledProcessError" =>
          /\ pc = "crashed"
          /\ rc = <<1>>
          /\ ~Reached("DONE")
          /\ script_file = FALSE
          /\ hist.hooks # <<>>
          /\ LET failed == hist.hooks[Len(hist.hooks)] IN
             /\ failed = "pre_install" =>
                   /\ destination = <<>>
                   /\ ~Reached("DESTINATION_CHOSEN")
                   /\ ~hist.makedirs
                   /\ hist.extracted = <<>>
                   /\ fs = hist.tree0
             /\ failed = "post_install" =>
                   /\ hist.removed = {}
                   /\ reloc.caller # "post"
             /\ failed = "post_relocate" =>
                   /\ PostRelocateName \notin hist.removed
                   /\ fs[PostRelocateName].kind = "file"
    /\ script_file => pc \in {"pre_install_run", "post_install_run"}
    /\ rc = <<0>> => hist.message = ""

C13_Witness ==
    /\ pc = "crashed"
    /\ hist.message = "CalledProcessError"
    /\ hist.hooks = <<"pre_install", "post_install">>
    /\ Len(hist.extracted) >= 2
    /\ fs[RelocateSdkPy].kind = "file"

\* C14 (as claimed): a run in list-only mode that returns 0 has written
\* nothing at all: no hook script was made or run, no directory made,
\* nothing extracted or relocated.
C14_ListModeWritesNothing ==
    (args.list_files /\ rc = <<0>>) =>
       /\ hist.temp_scripts = 0
       /\ hist.hooks = <<>>
       /\ ~hist.makedirs
       /\ hist.extracted = <<>>
       /\ hist.relocated = <<>>

\* C14 (amended): in list-only mode a run that passed the checks, the
\* validation and the confirmation prints the names of all members in
\* stream order and returns 0 without touching the destination: it is not
\* made, its tree is as it was, nothing is unlinked, extracted, relocated
\* or removed, and no hook runs after the listing; the pre-install hook
\* (not on Windows) has run before, and its temporary script is removed.
C14_ListModeLeavesDestination ==
    /\ (args.list_files /\ Reached("CONFIRMED") /\ pc # "try") =>
          /\ pc = "exit"
          /\ rc = <<0>>
          /\ hist.listed = [i \in 1..Len(archive) |-> archive[i].name]
          /\ tf_pos = 0
          /\ fs = hist.tree0
          /\ outside = Outside0
          /\ dest_dir = hist.dest_dir0
          /\ ~hist.makedirs
          /\ hist.unlinked = <<>>
          /\ hist.extracted = <<>>
          /\ hist.relocated = <<>>
          /\ hist.removed = {}
          /\ script_file = FALSE
          /\ hist.hooks = (IF windows THEN <<>> ELSE <<"pre_install">>)
          /\ hist.temp_scripts = (IF windows THEN 0 ELSE 1)
    /\ hist.listed # <<>> => args.list_files

C14_Witness ==
    /\ args.list_files
    /\ rc = <<0>>
    /\ Len(hist.listed) = 5
    /\ hist.listed[1] = ExtSdkPrepare
    /\ extract_exclude # {}
    /\ hist.hooks = <<"pre_install">>
    /\ ~dest_dir

\* the bytes of the members of q that hold no excluded string
RECURSIVE KeptBytes(_, _)
KeptBytes(q, exclude) ==
    IF q = <<>> THEN 0
    ELSE (IF \E x \in exclude : HasSubstr(x, Head(q).name)
          THEN 0 ELSE Head(q).size) + KeptBytes(Tail(q), exclude)

\* C15: at every point of the extraction the dots printed so far are
\* floor(bytes extracted so far / CHECKPOINT), where the bytes are those of
\* the members extracted, excluded members adding nothing; so members of
\* 2 * CHECKPOINT bytes in all have produced 2 dots; and the number of dots
\* never goes down.
C15_TicksAreFloorOfBytes ==
    /\ [](/\ hist.ticks = printed_checkpoints
          /\ current_size = KeptBytes(SubSeq(archive, 1, tf_pos), extract_exclude)
          /\ hist.ticks = current_size \div CHECKPOINT
          /\ current_size = 2 * CHECKPOINT => hist.ticks = 2)
    /\ [][hist'.ticks >= hist.ticks]_vars

C15_Witness ==
    /\ pc = "relocate_scan"
    /\ Len(archive) = 3
    /\ Len(hist.extracted) = 3
    /\ archive[1].size = CHECKPOINT - 1
    /\ current_size = 2 * CHECKPOINT
    /\ hist.ticks = 2

\* what relocate_file leaves of the post-relocate script
RelocatedPostScript ==
    FileNode([i \in 1..Len(reloc.orig) |->
                 Replace(reloc.orig[i], SDKPATH, destination)])

\* C16: the post-relocate script is run only when relocate_file has just
\* moved its rewritten content into place, SDKPATH replaced by the
\* destination in every line; once it was run (or passed over on Windows)
\* it is removed, unless -S was given: then it stays with that content.
C16_PostRelocateRelocatedThenRun ==
    /\ (pc = "post_relocate_run" \/ "post_relocate" \in Range(hist.hooks)) =>
          /\ reloc.caller = "post"
          /\ reloc.name = PostRelocateName
          /\ hist.relocated # <<>>
          /\ hist.relocated[Len(hist.relocated)] =
                [name |-> PostRelocateName, node |-> RelocatedPostScript]
          /\ Reached("RELOCATED")
          /\ ~windows => hist.hooks[2] = "post_install"
    /\ pc = "post_relocate_run" => fs[PostRelocateName] = RelocatedPostScript
    /\ (pc \in {"finish", "exit"} /\ reloc.caller = "post") =>
          /\ fs[PostRelocateName] =
                (IF args.save_scripts THEN RelocatedPostScript ELSE NoNode)
          /\ PostRelocateName \in hist.removed <=> ~args.save_scripts
          /\ ~windows => hist.hooks[Len(hist.hooks)] = "post_relocate"

C16_Witness ==
    /\ rc = <<0>>
    /\ hist.hooks = <<"pre_install", "post_install", "post_relocate">>
    /\ args.save_scripts
    /\ fs[PostRelocateName] = RelocatedPostScript
    /\ fs[PostRelocateName] # FileNode(PlainContent)
    /\ destination = <<"/cwd", "/", "sdk">>

\* an answer that is y, in either case, with blanks around it
SaysYes(answer) == answer \in {<<"y">>, <<"Y">>, <<" ", "y", " ">>}

\* the canonical environment file was at the destination before the run
PriorInstall == exists(hist.tree0, Outside0, RealEnvName)

\* C20: with --yes nothing is asked and the run goes on; without it the
\* overwrite question is asked exactly when the canonical environment file
\* is at the destination, and then the run goes on only on an answer of y
\* and aborts on an empty answer or the end of input; when the file is not
\* there an empty answer or the end of input goes on; any other answer
\* aborts; so nothing is made, unlinked or extracted over an earlier
\* install unless --yes or an answer of y was given.
C20_NoOverwriteWithoutConsent ==
    /\ (args.yes /\ Reached("DESTINATION_CHOSEN") /\ pc # "confirm") =>
          /\ Reached("CONFIRMED")
          /\ hist.prompt = "none"
    /\ (~args.yes /\ (Reached("CONFIRMED") \/ Reached("ABORTED"))) =>
          /\ hist.prompt = (IF PriorInstall THEN "overwrite" ELSE "install")
          /\ IF SaysYes(hist.answer) THEN Reached("CONFIRMED")
             ELSE IF hist.answer \in {<<>>, EOF}
             THEN (IF PriorInstall THEN Reached("ABORTED") ELSE Reached("CONFIRMED"))
             ELSE Reached("ABORTED")
    /\ (PriorInstall /\ (hist.makedirs \/ hist.unlinked # <<>>
                           \/ hist.extracted # <<>> \/ pc = "extract_member")) =>
          (args.yes \/ SaysYes(hist.answer))

C20_Witness ==
    /\ PriorInstall
    /\ ~args.yes
    /\ hist.answer = <<" ", "y", " ">>
    /\ RealEnvName \in Range(hist.extracted)
    /\ fs[RealEnvName] # hist.tree0[RealEnvName]

====
